---------------------------- MODULE Spec2Model ----------------------------
(***************************************************************************)
(* A model of the remote execution client of vscode-to-unreal:             *)
(* remote_execution.ts (src/unnamed/part_001) and the editor integration   *)
(* that drives it (src/src/extension.ts).                                  *)
(*                                                                         *)
(* The program runs on one JavaScript thread: every handler (an API call,  *)
(* a timer tick, a socket event, an editor command) runs to completion     *)
(* before the next one starts.  One action of the model is one handler.    *)
(*                                                                         *)
(* Spec        the exported class RemoteExecution, its methods called in   *)
(*             any order, with the network and the timers;                 *)
(* EditorSpec  the extension: a started session driven by the two editor   *)
(*             commands only (FairEditorSpec: the event loop is fair);     *)
(* FairSpec    Spec with a fair event loop;                                *)
(* CodecSpec   the methods of _RemoteExecutionMessage on their own;        *)
(* RegistrySpec  the methods of _RemoteExecutionBroadcastNodes on their     *)
(*             own, with the timestamps given by the caller;               *)
(* PingSpec    start(), stop() and the broadcast connection's timer, with  *)
(*             a clock finer than the ping interval;                       *)
(* AutoSpec    the extension that connects to the first node it finds      *)
(*             (src/unnamed/part_000); FairAutoSpec: every ready handler   *)
(*             runs;                                                       *)
(* DiscoverySpec  start(), stop(), open_command_connection(), the timer,   *)
(*             every kind of datagram, and the sockets of closed broadcast *)
(*             connections;                                                *)
(* SweepSpec   the timer's callback run one node at a time, with the pongs *)
(*             of two nodes;                                               *)
(* ChannelSpec the methods of _RemoteExecutionCommandConnection and        *)
(*             RemoteExecution.stop on their own.                          *)
(***************************************************************************)
EXTENDS Integers, Sequences, FiniteSets, TLC

(***************************** bounds **************************************)
MaxConns == 2        \* command connection objects created in one run
MaxClock == 1002     \* the clock stops advancing here (ms)
MaxSocks == 2        \* inbound TCP connections accepted by one channel
MaxUi == 2           \* connecting_to_ue invocations in progress at once
MaxOrphans == 1      \* broadcast connections replaced by a second start()
Epoch == 1           \* the clock's first value (Date.getTime() is positive)
MaxPingClock == 3003 \* where the clock stops when only the pings are watched
MaxDetect == 2       \* detect_node intervals alive at once
MaxClosed == 1       \* closed broadcast connections whose socket is followed
MaxSweepClock == 10003 \* where the clock stops when the sweep is watched

(************************** protocol constants ****************************)
_PROTOCOL_VERSION == 1
_PROTOCOL_MAGIC == "ue_py"
_TYPE_PING == "ping"
_TYPE_PONG == "pong"
_TYPE_OPEN_CONNECTION == "open_connection"
_TYPE_CLOSE_CONNECTION == "close_connection"
_TYPE_COMMAND == "command"
_TYPE_COMMAND_RESULT == "command_result"
_NODE_PING_SECONDS == 1000
_NODE_TIMEOUT_SECONDS == 5000
TryAcceptAttempts == 6

(****************************** values *************************************)
\* JavaScript's null / undefined, for a field that holds a string otherwise.
Absent == "<absent>"
\* The session's own node id (String(uuid())) and the remote nodes' ids.
LocalId == "local"
RemoteIds == {"n1", "n2"}
\* A JavaScript value is falsy when it is null, undefined or the empty string.
Falsy(s) == s \in {Absent, ""}

\* A JSON value of the "version" key: a number, a string, or no such key.
JNum(n) == [t |-> "num", n |-> n, s |-> ""]
JStr(s) == [t |-> "str", n |-> 0, s |-> s]
JNone == [t |-> "none", n |-> 0, s |-> ""]

\* Number(s) for the strings of the model; 0 - 1 stands for NaN.
StrToNum(s) == IF s = "1" THEN 1 ELSE IF s = "2" THEN 2 ELSE IF s = "" THEN 0 ELSE 0 - 1

\* v != n with JavaScript's loose comparison of a JSON value with a number.
LooseNeNum(v, n) ==
    CASE v.t = "num" -> v.n # n
      [] v.t = "str" -> StrToNum(v.s) # n
      [] OTHER -> TRUE

\* The payload of a message ("data"): absent, the attributes of a pong, or
\* the result of a command.  node_id is the object's key 'node_id' (Absent: it
\* has no such key).
NoData == [kind |-> "absent", success |-> FALSE, text |-> "", node_id |-> Absent]
Attrs(machine) ==
    [kind |-> "attrs", success |-> FALSE, text |-> machine, node_id |-> Absent]
Result(success, text) ==
    [kind |-> "result", success |-> success, text |-> text, node_id |-> Absent]
\* The payload of open_connection: command_ip and command_port of the
\* configuration, DEFAULT_COMMAND_ENDPOINT.
Endpoint ==
    [kind |-> "endpoint", success |-> FALSE, text |-> "127.0.0.1:6776",
     node_id |-> Absent]

\* A _RemoteExecutionMessage object: type_, source, dest, data.
Message(type_, source, dest, data) ==
    [type_ |-> type_, source |-> source, dest |-> dest, data |-> data]

\* What arrives from the network: text that JSON.parse accepts as an object
\* (json = TRUE) with these keys, or text it throws on / a non-object.
Raw(json, version, magic, type_, source, dest, data) ==
    [json |-> json, version |-> version, magic |-> magic, type_ |-> type_,
     source |-> source, dest |-> dest, data |-> data]


(************************* _RemoteExecutionMessage *************************)
\* passes_receive_filter without its test of the source.
passes_receive_filter_any_source(m, node_id) ==
    Falsy(m.dest) \/ m.dest = node_id

\* passes_receive_filter: the message was not sent by this node, and has no
\* destination (a falsy dest) or this node as its destination.
passes_receive_filter(m, node_id) ==
    m.source # node_id /\ (Falsy(m.dest) \/ m.dest = node_id)

\* to_json: version, magic, type and source always; dest and data only when
\* they are truthy.  The payload is written under the key "data".
to_json(m) ==
    Raw(TRUE, JNum(_PROTOCOL_VERSION), _PROTOCOL_MAGIC, m.type_, m.source,
        IF Falsy(m.dest) THEN Absent ELSE m.dest,
        m.data)

\* to_json with a 'dest' key on every message.
to_json_keys_always_dest(m) ==
    {"version", "magic", "type", "source", "dest"}
        \cup (IF m.data = NoData THEN {} ELSE {"data"})

\* The keys of the object to_json writes: 'dest' and 'data' are set only
\* under if (this.dest) and if (this.data).
to_json_keys(m) ==
    {"version", "magic", "type", "source"}
        \cup (IF Falsy(m.dest) THEN {} ELSE {"dest"})
        \cup (IF m.data = NoData THEN {} ELSE {"data"})

\* The error from_json throws inside its try block, and only logs.
from_json_error(raw) ==
    IF ~raw.json THEN "InvalidJSON"
    ELSE IF LooseNeNum(raw.version, _PROTOCOL_VERSION) THEN "VersionMismatch"
    ELSE IF raw.magic # _PROTOCOL_MAGIC THEN "MagicMismatch"
    ELSE "none"

\* The value from_json returns, whatever happened in its try block.
from_json_return(error) == TRUE

\* from_json without its read of the 'data' key.
from_json_no_data(raw) ==
    LET error == from_json_error(raw)
    IN  [ret |-> from_json_return(error),
         logged |-> error,
         msg |-> IF error = "none"
                 THEN Message(raw.type_, raw.source, raw.dest, NoData)
                 ELSE Message(Absent, Absent, Absent, NoData)]

\* from_json on a message constructed with (null, null): ret is the value it
\* returns, msg the fields afterwards, logged the error it caught.
from_json(raw) ==
    LET error == from_json_error(raw)
    IN  [ret |-> from_json_return(error),
         logged |-> error,
         msg |-> IF error = "none"
                 THEN Message(raw.type_, raw.source, raw.dest, raw.data)
                 ELSE Message(Absent, Absent, Absent, NoData)]

\* from_json_bytes: the bytes as a string, then from_json.
from_json_bytes(raw) == from_json(raw)

\* _receive_message: the message, or "Remote party failed to send a valid
\* response!" thrown.  data is NoRaw when the handler got no data.
NoRaw == Raw(FALSE, JNone, Absent, "<none>", Absent, Absent, NoData)

\* _receive_message without its test of the type.
_receive_message_any_type(raw, node_id, expected_type) ==
    LET parsed == from_json_bytes(raw)
    IN  IF raw # NoRaw /\ parsed.ret /\ passes_receive_filter(parsed.msg, node_id)
        THEN [thrown |-> FALSE, msg |-> parsed.msg]
        ELSE [thrown |-> TRUE, msg |-> Message(Absent, Absent, Absent, NoData)]

_receive_message(raw, node_id, expected_type) ==
    LET parsed == from_json_bytes(raw)
    IN  IF raw # NoRaw /\ parsed.ret /\ passes_receive_filter(parsed.msg, node_id)
           /\ parsed.msg.type_ = expected_type
        THEN [thrown |-> FALSE, msg |-> parsed.msg]
        ELSE [thrown |-> TRUE, msg |-> Message(Absent, Absent, Absent, NoData)]

\* A null _RemoteExecutionMessage reference (_result before any result).
NoMessage == Message(Absent, Absent, Absent, NoData)

(******************************* state *************************************)
VARIABLES
    clock,      \* Date.getTime(), in ms
    bcOpen,     \* RemoteExecution._broadcast_connection is not null
    bcTimer,    \* its socket and timer: "none", "binding" or "running"
    bcOrphans,  \* broadcast connections start() replaced without closing
    lastPing,   \* _RemoteExecutionBroadcastConnection._last_ping
    nodes,      \* _RemoteExecutionBroadcastNodes._remote_nodes
    udp,        \* the broadcast sockets as the runtime holds them: the sends
                \* queued on the current one, the closed connections' sockets
    sweep,      \* the timeout_remote_nodes call in progress, and the last one
    cur,        \* RemoteExecution._command_connection (0 is null)
    conns,      \* the _RemoteExecutionCommandConnection objects created
    sockIn,     \* data the remote party wrote that no handler has read yet
    rc,         \* the run_command call in progress, and the last one's end
    uiPending,  \* editor commands invoked and not yet dispatched
    polling,    \* connecting_to_ue invocations waiting in get_nodes
    picking,    \* the node lists of the invocations waiting in showQuickPick
    codec,      \* one call of a method on its own: its arguments and its result
    auto,       \* the auto-connecting extension's remote_exec, remote_node_id
                \* and detect_node intervals (src/unnamed/part_000)
    hist        \* what has happened: the calls made and their arguments

vars == <<sweep, codec, auto, hist, clock, bcOpen, bcTimer, bcOrphans, lastPing, nodes,
          udp, cur, conns, sockIn, rc, uiPending, polling, picking>>

channel == <<bcOpen, bcTimer, bcOrphans, lastPing, nodes>>
discovery == <<bcOpen, bcTimer, bcOrphans, lastPing, nodes, udp>>
command == <<cur, conns, sockIn, rc>>
editor == <<uiPending, polling, picking>>

ConnIds == 1 .. MaxConns

\* The keys update_remote_node can be given: the source of a message, which
\* is a node id, the empty string, or undefined when the message has no
\* source.
NodeKeys == RemoteIds \cup {LocalId, Absent, ""}

\* A _RemoteExecutionNode: data and _last_pong (seen = 0: no such key).
NoNode == [seen |-> 0, data |-> NoData]

\* No timeout_remote_nodes call was made yet.  pc: "running" inside its loop;
\* now: its _now; todo: the keys its for-in loop has still to visit; start
\* and end: _remote_nodes when the call began and when it returned.
NoSweep ==
    [pc |-> "idle", now |-> 0, todo |-> {}, start |-> [k \in NodeKeys |-> NoNode],
     end |-> [k \in NodeKeys |-> NoNode]]

\* The broadcast sockets before the first bind.  queued: a send was made on
\* the current socket before its bind completed, so that the socket keeps a
\* queue which its 'listening' event flushes; pending: the closed broadcast
\* connections whose socket.close() went into such a queue; receiving: the
\* closed broadcast connections whose socket stayed bound and receiving.
NoUdp == [queued |-> FALSE, pending |-> 0, receiving |-> 0]

\* A _RemoteExecutionCommandConnection that was not created yet / as its
\* constructor leaves it.  chan: _command_channel_socket is set; socks: the
\* accepted sockets not destroyed; accepted: a connection was ever accepted;
\* written: the commands written; open: how open() ended; broadcasts and
\* request: how many open_connection messages open() broadcast, and the
\* message.
NoConn ==
    [used |-> FALSE, remote |-> Absent, listen |-> "none", chan |-> FALSE,
     socks |-> 0, accepted |-> FALSE, written |-> 0, open |-> "none",
     result |-> NoMessage, broadcasts |-> 0, request |-> NoMessage]

NoIn == [conn |-> 0, raw |-> NoRaw]

\* codec when no method is under test: op is the method, raw, m, node_id,
\* expected, conn, cc and broadcasting its arguments (conn: the command
\* connection it is called on; cc: the session has one; broadcasting: the
\* session has a broadcast connection), ret / logged / parsed / passes /
\* keys / enc / thrown / effects what it gave (keys and enc: the keys and the
\* content of the text to_json wrote; effects: what it did to the sockets, in
\* order).
NoCall ==
    [op |-> "none", done |-> FALSE, raw |-> NoRaw, m |-> NoMessage,
     node_id |-> Absent, ret |-> FALSE, logged |-> "none", parsed |-> NoMessage,
     passes |-> FALSE, keys |-> {}, enc |-> NoRaw, expected |-> Absent,
     conn |-> NoConn, cc |-> FALSE, broadcasting |-> FALSE, thrown |-> FALSE,
     effects |-> <<>>]

\* The auto-connecting extension before its first command: no session
\* (remote_exec is null), no remote_node_id, no detect_node interval.
NoAuto == [remote_exec |-> FALSE, remote_node_id |-> Absent, detect |-> 0]

\* Nothing has happened yet.  started: a start() was called and no stop() has
\* completed since; stoppedWith: the nodes listed when the last stop() was
\* called; prevPing: the time of the current broadcast connection's ping
\* before its last one; opens: the open_command_connection calls of the
\* detect_node intervals since the last start(); op, n, t0, now, before: the
\* last call made on the node registry, the node it updated, the timestamp
\* each node was last updated with, the timestamp of the last
\* timeout_remote_nodes and the nodes held before it; tick: the last tick of
\* the current broadcast connection's timer, the time it ran at (0: none
\* yet), the _last_ping it found and whether it sent a ping; late: how the
\* last 'listening' handler of a closed broadcast connection ended;
\* closedData: how the last 'message' handler of one ended.
NoTick == [now |-> 0, last |-> 0, sent |-> FALSE]
NoHist ==
    [started |-> FALSE, stoppedWith |-> {}, prevPing |-> 0, opens |-> 0,
     op |-> "none", n |-> Absent, t0 |-> [k \in NodeKeys |-> 0], now |-> 0,
     before |-> {}, tick |-> NoTick, late |-> "none", closedData |-> "none"]

Init ==
    /\ clock = Epoch
    /\ bcOpen = FALSE
    /\ bcTimer = "none"
    /\ bcOrphans = 0
    /\ lastPing = 0
    /\ nodes = [k \in NodeKeys |-> NoNode]
    /\ udp = NoUdp
    /\ sweep = NoSweep
    /\ cur = 0
    /\ conns = [c \in ConnIds |-> NoConn]
    /\ sockIn = NoIn
    /\ rc = [pc |-> "idle", conn |-> 0, raise |-> FALSE, out |-> "none", data |-> NoData]
    /\ uiPending = {}
    /\ polling = 0
    /\ picking = <<>>
    /\ codec = NoCall
    /\ auto = NoAuto
    /\ hist = NoHist

\* A timeout_remote_nodes that gave the thread back between two nodes would
\* leave only run_command in the way of the other handlers.
EventLoopFree_sweep_yields == rc.pc = "idle"

\* No handler can start while another one runs: run_command's wait loop
\* (while (true) { if (this._result) ... }) never gives the thread back, and
\* neither does the loop of timeout_remote_nodes, which has no await in it.
EventLoopFree == rc.pc = "idle" /\ sweep.pc = "idle"

\* _time_now(now): the cached timestamp if it is truthy, else the clock.
_time_now(now) == IF now # 0 THEN now ELSE clock

(*************************** discovery channel *****************************)
\* _RemoteExecutionNode.should_timeout
should_timeout(node, now) == (node.seen + _NODE_TIMEOUT_SECONDS) < _time_now(now)

\* _RemoteExecutionBroadcastNodes.timeout_remote_nodes
timeout_remote_nodes(reg, now) ==
    [k \in DOMAIN reg |->
        IF reg[k].seen # 0 /\ should_timeout(reg[k], _time_now(now))
        THEN NoNode ELSE reg[k]]

\* _RemoteExecutionBroadcastNodes.update_remote_node
update_remote_node(reg, node_id, node_data, now) ==
    [reg EXCEPT ![node_id] = [seen |-> _time_now(_time_now(now)), data |-> node_data]]

\* The node ids remote_nodes lists ([] without a broadcast connection).
remote_nodes == IF bcOpen THEN {k \in DOMAIN nodes : nodes[k].seen # 0} ELSE {}

\* new Object(node.data), then ['node_id'] = node_id: for an object this is
\* node.data itself, which gets the key; for null it is a new empty object.
remote_node_data(data, node_id) ==
    IF data.kind = "absent" THEN [kind |-> "attrs", success |-> FALSE, text |-> "",
                                  node_id |-> node_id]
    ELSE [data EXCEPT !.node_id = node_id]

\* _RemoteExecutionBroadcastNodes.remote_nodes, the list it returns: one
\* entry for each key of _remote_nodes.
remote_nodes_list(reg) ==
    {remote_node_data(reg[k].data, k) : k \in {j \in DOMAIN reg : reg[j].seen # 0}}

\* _RemoteExecutionBroadcastNodes.remote_nodes, the registry it leaves: the
\* data of a node that is an object is the entry that was returned.
remote_nodes_stored(reg) ==
    [k \in DOMAIN reg |->
        IF reg[k].seen # 0 /\ reg[k].data.kind # "absent"
        THEN [reg[k] EXCEPT !.data = remote_node_data(@, k)]
        ELSE reg[k]]

\* _broadcast_ping without its guard.
ping_due_unguarded(last_ping, now) == TRUE

\* The guard of _broadcast_ping.
ping_due(last_ping, now) ==
    last_ping = 0 \/ (last_ping + _NODE_PING_SECONDS) < _time_now(now)

\* What is smaller.
Min(a, b) == IF a < b THEN a ELSE b

\* _broadcast_message on a broadcast connection whose timer is in state
\* timer: socket.send() before the bind has completed queues the datagram.
_broadcast_message(u, timer) == [u EXCEPT !.queued = @ \/ timer = "binding"]

\* _RemoteExecutionBroadcastConnection.close, for the sockets: socket.close()
\* on a socket with queued sends is queued behind them, until 'listening';
\* on any other socket it closes it, and no 'listening' follows.
broadcast_close(u, timer) ==
    [u EXCEPT !.pending = IF timer = "binding" /\ u.queued
                          THEN Min(@ + 1, MaxClosed) ELSE @,
              !.queued = FALSE]

\* The 'listening' handler: it reads this._broadcast_socket.address(), a
\* TypeError when close() has set _broadcast_socket to null, then sets the
\* interval.
listening(socket_set) == IF socket_set THEN "running" ELSE "TypeError"

\* Time passes.
AdvanceClock(d) ==
    /\ clock + d <= MaxClock
    /\ clock' = clock + d
    /\ UNCHANGED <<sweep, codec, auto, hist, discovery, command, editor>>

\* RemoteExecution.start: a new broadcast connection, opened.  The one it
\* replaces, if any, is not closed.
Start ==
    /\ EventLoopFree
    /\ bcOpen => bcOrphans < MaxOrphans
    /\ bcOrphans' = IF bcOpen THEN bcOrphans + 1 ELSE bcOrphans
    /\ bcOpen' = TRUE
    /\ bcTimer' = "binding"
    /\ lastPing' = 0
    /\ nodes' = [k \in NodeKeys |-> NoNode]
    /\ hist' = [hist EXCEPT !.started = TRUE, !.stoppedWith = {}, !.prevPing = 0,
                            !.opens = 0, !.tick = NoTick]
    /\ udp' = [udp EXCEPT !.queued = FALSE]
    /\ UNCHANGED <<sweep, codec, auto, clock, command, editor>>

\* The socket's 'listening' event: the periodic task starts.
Listening ==
    /\ EventLoopFree
    /\ bcOpen /\ bcTimer = "binding"
    /\ bcTimer' = listening(bcOpen)
    /\ udp' = [udp EXCEPT !.queued = FALSE]
    /\ UNCHANGED <<sweep, codec, auto, hist, clock, bcOpen, bcOrphans, lastPing, nodes, command, editor>>

\* One tick of the setInterval task: _broadcast_ping, timeout_remote_nodes.
TimerTick ==
    /\ EventLoopFree
    /\ bcOpen /\ bcTimer = "running"
    /\ lastPing' = IF ping_due(lastPing, clock) THEN _time_now(clock) ELSE lastPing
    /\ nodes' = timeout_remote_nodes(nodes, clock)
    /\ hist' = [hist EXCEPT
                   !.prevPing = IF ping_due(lastPing, clock) THEN lastPing ELSE @,
                   !.tick = [now |-> clock, last |-> lastPing,
                             sent |-> ping_due(lastPing, clock)]]
    /\ UNCHANGED <<sweep, codec, auto, clock, bcOpen, bcTimer, bcOrphans, udp, command, editor>>

\* _handle_message without its call of passes_receive_filter.
_handle_message_unfiltered(reg, m) ==
    IF m.type_ = _TYPE_PONG THEN update_remote_node(reg, m.source, m.data, 0)
    ELSE reg

\* _handle_message, on the message _handle_data parsed.
_handle_message(reg, m) ==
    IF ~passes_receive_filter(m, LocalId) THEN reg
    ELSE IF m.type_ = _TYPE_PONG THEN update_remote_node(reg, m.source, m.data, 0)
    ELSE reg

\* _handle_data: the 'message' event of the broadcast socket.
_handle_data(reg, raw) ==
    LET parsed == from_json_bytes(raw)
    IN  IF parsed.ret THEN _handle_message(reg, parsed.msg) ELSE reg

\* The datagrams the model delivers to the broadcast socket.
Datagrams ==
    { Raw(TRUE, JNum(1), "ue_py", "pong", "n1", Absent, Attrs("WS1")),
      Raw(TRUE, JNum(1), "ue_py", "pong", "n1", "n2", Attrs("WS1")),
      Raw(TRUE, JNum(1), "ue_py", "pong", LocalId, Absent, Attrs("WS0")),
      Raw(TRUE, JNum(2), "ue_py", "pong", "n1", Absent, Attrs("WS1")),
      Raw(TRUE, JNum(1), "ue_py", "ping", "n1", Absent, NoData),
      Raw(FALSE, JNone, Absent, Absent, Absent, Absent, NoData) }

UdpMessage(raw) ==
    /\ EventLoopFree
    /\ bcOpen /\ bcTimer = "running"
    /\ nodes' = _handle_data(nodes, raw)
    /\ UNCHANGED <<sweep, codec, auto, hist, clock, bcOpen, bcTimer, bcOrphans, lastPing, udp,
                   command, editor>>

\* _handle_data on a broadcast connection after its close(), whose _nodes is
\* null: a pong that passes the filter ends in a TypeError, anything else is
\* dropped as before.
_handle_data_closed(raw) ==
    LET parsed == from_json_bytes(raw)
    IN  IF parsed.ret /\ passes_receive_filter(parsed.msg, LocalId)
           /\ parsed.msg.type_ = _TYPE_PONG
        THEN "TypeError" ELSE "dropped"

\* The 'listening' event of a socket whose broadcast connection was closed
\* while sends were queued on it.  The handler throws, so the event's later
\* listeners, which flush the queue with the sends and the close, do not
\* run: the socket stays bound and receiving.
LateListening ==
    /\ EventLoopFree
    /\ udp.pending > 0
    /\ LET r == listening(FALSE)
       IN  /\ udp' = [udp EXCEPT !.pending = @ - 1,
                                 !.receiving = IF r = "TypeError"
                                               THEN Min(@ + 1, MaxClosed) ELSE @]
           /\ hist' = [hist EXCEPT !.late = r]
    /\ UNCHANGED <<sweep, codec, auto, clock, channel, command, editor>>

\* The 'message' event of such a socket.
ClosedUdpMessage(raw) ==
    /\ EventLoopFree
    /\ udp.receiving > 0
    /\ hist' = [hist EXCEPT !.closedData = _handle_data_closed(raw)]
    /\ UNCHANGED <<sweep, codec, auto, clock, discovery, command, editor>>

(**************************** command channel ******************************)
\* RemoteExecution.has_command_connection
has_command_connection == cur # 0

\* The connection objects created so far are 1 .. ConnCount.
ConnCount == Cardinality({c \in ConnIds : conns[c].used})

\* listen() on the command endpoint: the port is taken while another server
\* of this process still listens on it.
listen_result(cs) ==
    IF \E c \in ConnIds : cs[c].listen = "listening" THEN "failed" ELSE "listening"

\* _try_accept: the broadcasts it sends and whether it throws, given whether
\* _command_listen_socket is set.  It returns from the first pass of its loop
\* that finds the listen socket set.
_try_accept(listen_socket_set) ==
    IF listen_socket_set
    THEN [thrown |-> FALSE, broadcasts |-> 1]
    ELSE [thrown |-> TRUE, broadcasts |-> TryAcceptAttempts]

\* broadcast_open_connection's message, sent to every node.
open_connection_message_to_all(node_id, remote_node_id) ==
    Message(_TYPE_OPEN_CONNECTION, node_id, Absent, Endpoint)

\* broadcast_open_connection's message.
open_connection_message(node_id, remote_node_id) ==
    Message(_TYPE_OPEN_CONNECTION, node_id, remote_node_id, Endpoint)

\* _RemoteExecutionCommandConnection.open, on a new object for remote node n:
\* the listen socket, then _try_accept.  Without a broadcast connection the
\* first broadcast_open_connection throws a TypeError.
open(cs, n, broadcasting) ==
    LET listen == listen_result(cs)
        accept == _try_accept(listen # "none")
    IN  [NoConn EXCEPT !.used = TRUE, !.remote = n, !.listen = listen,
                       !.open = IF ~broadcasting THEN "TypeError"
                                ELSE IF accept.thrown THEN "Error" ELSE "ok",
                       !.broadcasts = IF broadcasting THEN accept.broadcasts ELSE 0,
                       !.request = IF broadcasting
                                   THEN open_connection_message(LocalId, n)
                                   ELSE NoMessage]

\* _RemoteExecutionCommandConnection.close, after its broadcast: the accepted
\* socket the object refers to is destroyed, the listen socket closed.
close(conn) ==
    [conn EXCEPT !.socks = IF conn.chan THEN conn.socks - 1 ELSE conn.socks,
                 !.chan = FALSE,
                 !.listen = "none"]

\* One thing a method does to a socket: act is "send" (m is broadcast),
\* "destroy" (the accepted socket), "close_listen" (the listen socket),
\* "close_broadcast" (the broadcast connection) or "TypeError" (thrown).
Effect(act, m) == [act |-> act, m |-> m]

\* broadcast_close_connection's message.
close_connection_message(node_id, remote_node_id) ==
    Message(_TYPE_CLOSE_CONNECTION, node_id, remote_node_id, NoData)

\* close with the sockets torn down before the remote party is told.
close_effects_teardown_first(conn, broadcasting) ==
    IF ~broadcasting THEN <<Effect("TypeError", NoMessage)>>
    ELSE (IF conn.chan THEN <<Effect("destroy", NoMessage)>> ELSE <<>>)
         \o (IF conn.listen # "none" THEN <<Effect("close_listen", NoMessage)>>
             ELSE <<>>)
         \o <<Effect("send", close_connection_message(LocalId, conn.remote))>>

\* _RemoteExecutionCommandConnection.close, as what it does in order:
\* broadcast_close_connection (a TypeError on a null broadcast connection),
\* then the accepted socket if there is one, then the listen socket if there
\* is one.
close_effects(conn, broadcasting) ==
    IF ~broadcasting THEN <<Effect("TypeError", NoMessage)>>
    ELSE <<Effect("send", close_connection_message(LocalId, conn.remote))>>
         \o (IF conn.chan THEN <<Effect("destroy", NoMessage)>> ELSE <<>>)
         \o (IF conn.listen # "none" THEN <<Effect("close_listen", NoMessage)>>
             ELSE <<>>)

\* RemoteExecution.stop, as what it does in order: close_command_connection
\* (close, when there is a command connection), then the broadcast
\* connection's close when there is one.  A TypeError ends it.
stop_effects(cc, conn, broadcasting) ==
    IF cc /\ ~broadcasting THEN close_effects(conn, broadcasting)
    ELSE (IF cc THEN close_effects(conn, broadcasting) ELSE <<>>)
         \o (IF broadcasting THEN <<Effect("close_broadcast", NoMessage)>>
             ELSE <<>>)

\* RemoteExecution.close_command_connection as a state change: nothing without
\* a command connection; a TypeError, and nothing closed, without a broadcast
\* connection to send close_connection over.
close_command_connection(cs, cc, broadcasting) ==
    IF cc = 0 THEN [conns |-> cs, cur |-> cc, thrown |-> FALSE]
    ELSE IF ~broadcasting THEN [conns |-> cs, cur |-> cc, thrown |-> TRUE]
    ELSE [conns |-> [cs EXCEPT ![cc] = close(cs[cc])], cur |-> 0, thrown |-> FALSE]

\* Data that was on its way to a socket close() destroyed is dropped.
drop_closed(cs, in) ==
    IF in.conn # 0 /\ cs[in.conn].socks = 0 THEN NoIn ELSE in

\* RemoteExecution.open_command_connection
OpenCommandConnection(n) ==
    /\ EventLoopFree
    /\ ConnCount < MaxConns
    /\ LET c == ConnCount + 1
       IN  /\ cur' = c
           /\ conns' = [conns EXCEPT ![c] = open(conns, n, bcOpen)]
    /\ udp' = IF bcOpen THEN _broadcast_message(udp, bcTimer) ELSE udp
    /\ UNCHANGED <<sweep, codec, auto, hist, clock, channel, sockIn, rc, editor>>

\* RemoteExecution.close_command_connection
CloseCommandConnection ==
    /\ EventLoopFree
    /\ LET r == close_command_connection(conns, cur, bcOpen)
       IN  /\ conns' = r.conns
           /\ cur' = r.cur
           /\ sockIn' = drop_closed(r.conns, sockIn)
    /\ udp' = IF cur # 0 /\ bcOpen THEN _broadcast_message(udp, bcTimer) ELSE udp
    /\ UNCHANGED <<sweep, codec, auto, hist, clock, channel, rc, editor>>

\* stop without its closing of the broadcast connection.
Stop_command_only ==
    /\ EventLoopFree
    /\ LET r == close_command_connection(conns, cur, bcOpen)
       IN  /\ conns' = r.conns
           /\ cur' = r.cur
           /\ sockIn' = drop_closed(r.conns, sockIn)
           /\ hist' = IF r.thrown THEN hist
                      ELSE [hist EXCEPT !.started = FALSE, !.stoppedWith = remote_nodes]
    /\ UNCHANGED <<sweep, codec, auto, clock, discovery, rc, editor>>

\* RemoteExecution.stop: close_command_connection, then the broadcast
\* connection is closed and dropped.
Stop ==
    /\ EventLoopFree
    /\ LET r == close_command_connection(conns, cur, bcOpen)
       IN  /\ conns' = r.conns
           /\ cur' = r.cur
           /\ sockIn' = drop_closed(r.conns, sockIn)
           /\ IF r.thrown \/ ~bcOpen
              THEN UNCHANGED <<bcOpen, bcTimer, lastPing, nodes, udp>>
              ELSE /\ bcOpen' = FALSE
                   /\ bcTimer' = "none"
                   /\ nodes' = [k \in NodeKeys |-> NoNode]
                   /\ udp' = broadcast_close(
                                 IF cur # 0 THEN _broadcast_message(udp, bcTimer)
                                 ELSE udp, bcTimer)
                   /\ UNCHANGED lastPing
           /\ hist' = IF r.thrown THEN hist
                      ELSE [hist EXCEPT !.started = FALSE, !.stoppedWith = remote_nodes]
    /\ UNCHANGED <<sweep, codec, auto, clock, bcOrphans, rc, editor>>

\* The listen socket's 'connection' event: the accepted socket becomes
\* _command_channel_socket and gets a 'data' handler.
Connection(c) ==
    /\ EventLoopFree
    /\ conns[c].listen = "listening"
    /\ conns[c].socks < MaxSocks
    /\ conns' = [conns EXCEPT ![c].chan = TRUE, ![c].socks = @ + 1,
                              ![c].accepted = TRUE]
    /\ UNCHANGED <<sweep, codec, auto, hist, clock, discovery, cur, sockIn, rc, editor>>

\* What the remote party may write on an accepted socket.
Replies ==
    { Raw(TRUE, JNum(1), "ue_py", "command_result", "n1", LocalId, Result(TRUE, "1")),
      Raw(TRUE, JNum(1), "ue_py", "command_result", "n1", LocalId, Result(FALSE, "err")),
      Raw(TRUE, JNum(1), "ue_py", "command", "n1", LocalId, NoData) }

\* The remote party writes on an accepted socket of connection c: a
\* command_result in answer to a command, anything else at any time.
RemoteSends(c, raw) ==
    /\ conns[c].socks > 0
    /\ raw.type_ = _TYPE_COMMAND_RESULT => conns[c].written > 0
    /\ sockIn = NoIn
    /\ sockIn' = [conn |-> c, raw |-> raw]
    /\ UNCHANGED <<sweep, codec, auto, hist, clock, discovery, cur, conns, rc, editor>>

\* The 'data' handler of an accepted socket: it calls _receive_message, which
\* throws or returns the message, and drops what it returns.  Either way the
\* connection is as before: nothing assigns _result.
on_data(conn, raw) ==
    LET received == _receive_message(raw, LocalId, _TYPE_COMMAND_RESULT)
    IN  IF received.thrown THEN conn ELSE conn

\* The accepted socket's 'data' event.
DataHandler ==
    /\ EventLoopFree
    /\ sockIn # NoIn
    /\ sockIn' = NoIn
    /\ conns' = [conns EXCEPT ![sockIn.conn] = on_data(@, sockIn.raw)]
    /\ UNCHANGED <<sweep, codec, auto, hist, clock, discovery, cur, rc, editor>>

\* run_command that writes its command whether or not a socket was accepted.
run_command_unguarded(cs, cc, raise_on_failure) ==
    IF cc = 0
    THEN [conns |-> cs,
          rc |-> [pc |-> "idle", conn |-> 0, raise |-> raise_on_failure,
                  out |-> "TypeError", data |-> NoData]]
    ELSE [conns |-> [cs EXCEPT ![cc].written = @ + 1],
          rc |-> [pc |-> "waiting", conn |-> cc, raise |-> raise_on_failure,
                  out |-> "none", data |-> NoData]]

\* run_command up to its wait loop: a TypeError without a command connection
\* (RemoteExecution.run_command) or without an accepted socket
\* (_send_message); else the command is written and the call waits.
run_command(cs, cc, raise_on_failure) ==
    IF cc = 0 \/ ~cs[cc].chan
    THEN [conns |-> cs,
          rc |-> [pc |-> "idle", conn |-> 0, raise |-> raise_on_failure,
                  out |-> "TypeError", data |-> NoData]]
    ELSE [conns |-> [cs EXCEPT ![cc].written = @ + 1],
          rc |-> [pc |-> "waiting", conn |-> cc, raise |-> raise_on_failure,
                  out |-> "none", data |-> NoData]]

\* RemoteExecution.run_command, called by any user of the class.
RunCommand(raise_on_failure) ==
    /\ EventLoopFree
    /\ LET r == run_command(conns, cur, raise_on_failure)
       IN  /\ conns' = r.conns
           /\ rc' = r.rc
    /\ UNCHANGED <<sweep, codec, auto, hist, clock, discovery, cur, sockIn, editor>>

\* One pass of run_command's wait loop: with a result it takes it, clears
\* _result and returns result.data (RemoteExecution.run_command then throws if
\* raise_on_failure is set and success is not); without one it goes round.
RunCommandWait ==
    /\ rc.pc = "waiting"
    /\ IF conns[rc.conn].result # NoMessage
       THEN /\ conns' = [conns EXCEPT ![rc.conn].result = NoMessage]
            /\ rc' = [rc EXCEPT !.pc = "idle",
                                !.data = conns[rc.conn].result.data,
                                !.out = IF rc.raise /\ ~conns[rc.conn].result.data.success
                                        THEN "Error" ELSE "returned"]
       ELSE UNCHANGED <<conns, rc>>
    /\ UNCHANGED <<sweep, codec, auto, hist, clock, discovery, cur, sockIn, editor>>

(*************************** editor integration ****************************)
EditorCommands == {"connect2ue", "send2ue"}

\* The user invokes an editor command; its handler runs when the thread is
\* free.
UserInvoke(cmd) ==
    /\ cmd \notin uiPending
    /\ uiPending' = uiPending \cup {cmd}
    /\ UNCHANGED <<sweep, codec, auto, hist, clock, discovery, command, polling, picking>>

UiCount == polling + Len(picking)

\* connecting_to_ue up to its first wait: the current command connection is
\* closed, then get_nodes starts polling.
Connect2ue ==
    /\ EventLoopFree
    /\ "connect2ue" \in uiPending
    /\ UiCount < MaxUi
    /\ uiPending' = uiPending \ {"connect2ue"}
    /\ LET r == close_command_connection(conns, cur, bcOpen)
       IN  /\ conns' = r.conns
           /\ cur' = r.cur
           /\ sockIn' = drop_closed(r.conns, sockIn)
           /\ polling' = IF r.thrown THEN polling ELSE polling + 1
    /\ udp' = IF cur # 0 /\ bcOpen THEN _broadcast_message(udp, bcTimer) ELSE udp
    /\ UNCHANGED <<sweep, codec, auto, hist, clock, channel, rc, picking>>

\* The send2ue handler: without a command connection it starts
\* connecting_to_ue and reports that there is none; with one it calls
\* run_command(text, true, 'ExecuteFile').
Send2ue ==
    /\ EventLoopFree
    /\ "send2ue" \in uiPending
    /\ uiPending' = uiPending \ {"send2ue"}
    /\ IF ~has_command_connection
       THEN /\ UiCount < MaxUi
            /\ polling' = polling + 1
            /\ UNCHANGED <<conns, rc>>
       ELSE /\ LET r == run_command(conns, cur, FALSE)
               IN  /\ conns' = r.conns
                   /\ rc' = r.rc
            /\ UNCHANGED polling
    /\ UNCHANGED <<sweep, codec, auto, hist, clock, discovery, cur, sockIn, picking>>

\* get_nodes resolves at the first poll that finds a node: the quick pick is
\* shown with the nodes of that moment.  Reading remote_nodes writes node_id
\* into the data of the nodes held.
PollResolve ==
    /\ EventLoopFree
    /\ polling > 0
    /\ remote_nodes # {}
    /\ polling' = polling - 1
    /\ picking' = Append(picking, remote_nodes)
    /\ nodes' = remote_nodes_stored(nodes)
    /\ UNCHANGED <<sweep, codec, auto, hist, clock, bcOpen, bcTimer, bcOrphans, lastPing,
                   udp, command, uiPending>>

\* get_nodes rejects after 10 s without a node: the invocation ends.
PollTimeout ==
    /\ EventLoopFree
    /\ polling > 0
    /\ remote_nodes = {}
    /\ polling' = polling - 1
    /\ UNCHANGED <<sweep, codec, auto, hist, clock, discovery, command, uiPending, picking>>

Remove(seq, i) == [j \in 1 .. Len(seq) - 1 |-> IF j < i THEN seq[j] ELSE seq[j + 1]]

\* The user picks node n in a quick pick: open_command_connection(n).
Pick(i, n) ==
    /\ EventLoopFree
    /\ i \in 1 .. Len(picking)
    /\ n \in picking[i]
    /\ ConnCount < MaxConns
    /\ picking' = Remove(picking, i)
    /\ LET c == ConnCount + 1
       IN  /\ cur' = c
           /\ conns' = [conns EXCEPT ![c] = open(conns, n, bcOpen)]
    /\ udp' = IF bcOpen THEN _broadcast_message(udp, bcTimer) ELSE udp
    /\ UNCHANGED <<sweep, codec, auto, hist, clock, channel, sockIn, rc, uiPending, polling>>

\* The user dismisses a quick pick: the invocation ends.
PickCancel(i) ==
    /\ EventLoopFree
    /\ i \in 1 .. Len(picking)
    /\ picking' = Remove(picking, i)
    /\ UNCHANGED <<sweep, codec, auto, hist, clock, discovery, command, uiPending, polling>>

(***************************** specification *******************************)
ClockSteps == {_NODE_PING_SECONDS, _NODE_PING_SECONDS + 1}

\* What happens without a call from outside: time, the network, the timers.
Events ==
    \/ \E d \in ClockSteps : AdvanceClock(d)
    \/ Listening
    \/ TimerTick
    \/ \E raw \in Datagrams : UdpMessage(raw)
    \/ \E c \in ConnIds : Connection(c)
    \/ \E c \in ConnIds, raw \in Replies : RemoteSends(c, raw)
    \/ DataHandler
    \/ RunCommandWait

\* Any user of the exported class RemoteExecution: its methods in any order.
Next ==
    \/ Events
    \/ Start
    \/ Stop
    \/ \E n \in RemoteIds : OpenCommandConnection(n)
    \/ CloseCommandConnection
    \/ \E raise \in BOOLEAN : RunCommand(raise)

Spec == Init /\ [][Next]_vars

\* The event loop runs every handler that is ready, and a running wait loop
\* keeps going round; the calls, the clock and the remote party are not
\* forced.
FairSpec == Spec /\ WF_vars(Listening \/ TimerTick \/ DataHandler \/ RunCommandWait)

\* The editor integration: activate() constructs the session and starts it;
\* afterwards only the two editor commands call into it.
EditorInit ==
    /\ clock = Epoch
    /\ bcOpen = TRUE
    /\ bcTimer = "binding"
    /\ bcOrphans = 0
    /\ lastPing = 0
    /\ nodes = [k \in NodeKeys |-> NoNode]
    /\ udp = NoUdp
    /\ sweep = NoSweep
    /\ cur = 0
    /\ conns = [c \in ConnIds |-> NoConn]
    /\ sockIn = NoIn
    /\ rc = [pc |-> "idle", conn |-> 0, raise |-> FALSE, out |-> "none", data |-> NoData]
    /\ uiPending = {}
    /\ polling = 0
    /\ picking = <<>>
    /\ codec = NoCall
    /\ auto = NoAuto
    /\ hist = [NoHist EXCEPT !.started = TRUE]

EditorNext ==
    \/ Events
    \/ \E cmd \in EditorCommands : UserInvoke(cmd)
    \/ Connect2ue
    \/ Send2ue
    \/ PollResolve
    \/ PollTimeout
    \/ \E i \in 1 .. MaxUi, n \in NodeKeys : Pick(i, n)
    \/ \E i \in 1 .. MaxUi : PickCancel(i)

EditorSpec == EditorInit /\ [][EditorNext]_vars

\* The event loop runs every handler that is ready, and a running wait loop
\* keeps going round; what the user, the clock and the remote party do is not
\* forced.
Handlers ==
    \/ Listening
    \/ TimerTick
    \/ DataHandler
    \/ RunCommandWait
    \/ Connect2ue
    \/ Send2ue
    \/ PollResolve

FairEditorSpec == EditorSpec /\ WF_vars(Handlers)

(************************ the message methods alone ************************)
\* The texts from_json is given: JSON.parse throws or not, and every
\* combination of a right, wrong or missing version and magic.
RawInputs ==
    { Raw(json, version, magic, type_, source, dest, data) :
        json \in BOOLEAN,
        version \in {JNum(1), JNum(2), JStr("1"), JNone},
        magic \in {"ue_py", "ue_px", Absent},
        type_ \in {"pong", "command_result"},
        source \in {"n1", LocalId},
        dest \in {Absent, LocalId},
        data \in {NoData, Attrs("WS1")} }

\* The sources and destinations a message can carry, and the local ids.
IdValues == {Absent, "", LocalId, "n1", "n2"}
LocalIds == {LocalId, "n1"}

\* The messages to_json is given: every type, a source, a destination that
\* is null, empty (the key of a node whose pong had an empty source) or a
\* node id, and a payload or none.
MessageTypes ==
    {_TYPE_PING, _TYPE_PONG, _TYPE_OPEN_CONNECTION, _TYPE_CLOSE_CONNECTION,
     _TYPE_COMMAND, _TYPE_COMMAND_RESULT}
Messages ==
    { Message(type_, source, dest, data) :
        type_ \in MessageTypes,
        source \in {LocalId, "n1", "abc"},
        dest \in {Absent, "", LocalId, "n1"},
        data \in {NoData, Attrs("WS1"), Result(TRUE, "1")} }

CodecInit ==
    /\ clock = Epoch
    /\ bcOpen = FALSE
    /\ bcTimer = "none"
    /\ bcOrphans = 0
    /\ lastPing = 0
    /\ nodes = [k \in NodeKeys |-> NoNode]
    /\ udp = NoUdp
    /\ sweep = NoSweep
    /\ cur = 0
    /\ conns = [c \in ConnIds |-> NoConn]
    /\ sockIn = NoIn
    /\ rc = [pc |-> "idle", conn |-> 0, raise |-> FALSE, out |-> "none", data |-> NoData]
    /\ uiPending = {}
    /\ polling = 0
    /\ picking = <<>>
    /\ auto = NoAuto
    /\ hist = NoHist
    /\ \/ \E raw \in RawInputs :
            codec = [NoCall EXCEPT !.op = "from_json", !.raw = raw]
       \/ \E source \in IdValues, dest \in IdValues, node_id \in LocalIds :
            codec = [NoCall EXCEPT !.op = "passes_receive_filter",
                                   !.m = Message(_TYPE_PONG, source, dest, NoData),
                                   !.node_id = node_id]
       \/ \E m \in Messages, op \in {"to_json", "to_json, from_json"} :
            codec = [NoCall EXCEPT !.op = op, !.m = m]

\* from_json_bytes on a message constructed with (null, null).
CallFromJson ==
    /\ codec.op = "from_json" /\ ~codec.done
    /\ LET r == from_json_bytes(codec.raw)
       IN  codec' = [codec EXCEPT !.done = TRUE, !.ret = r.ret,
                                  !.logged = r.logged, !.parsed = r.msg]
    /\ UNCHANGED <<sweep, auto, hist, clock, discovery, command, editor>>

\* passes_receive_filter on message m for the local id node_id.
CallPassesReceiveFilter ==
    /\ codec.op = "passes_receive_filter" /\ ~codec.done
    /\ codec' = [codec EXCEPT !.done = TRUE,
                              !.passes = passes_receive_filter(codec.m, codec.node_id)]
    /\ UNCHANGED <<sweep, auto, hist, clock, discovery, command, editor>>

\* to_json on message m.
CallToJson ==
    /\ codec.op = "to_json" /\ ~codec.done
    /\ codec' = [codec EXCEPT !.done = TRUE, !.keys = to_json_keys(codec.m),
                              !.enc = to_json(codec.m)]
    /\ UNCHANGED <<sweep, auto, hist, clock, discovery, command, editor>>

\* to_json on message m, then from_json of that text on a message
\* constructed with (null, null).
CallToJsonFromJson ==
    /\ codec.op = "to_json, from_json" /\ ~codec.done
    /\ LET r == from_json(to_json(codec.m))
       IN  codec' = [codec EXCEPT !.done = TRUE, !.enc = to_json(codec.m),
                                  !.ret = r.ret, !.logged = r.logged,
                                  !.parsed = r.msg]
    /\ UNCHANGED <<sweep, auto, hist, clock, discovery, command, editor>>

CodecNext ==
    \/ CallFromJson
    \/ CallPassesReceiveFilter
    \/ CallToJson
    \/ CallToJsonFromJson

CodecSpec == CodecInit /\ [][CodecNext]_vars

(********************* the command connection alone ************************)
\* The command connections close() is called on: opened for a node, with a
\* listen socket that listens or failed to, with or without an accepted
\* socket; and one that was closed already.
Closable ==
    { [NoConn EXCEPT !.used = TRUE, !.open = "ok", !.remote = n, !.listen = l,
                     !.chan = ch, !.accepted = ch, !.socks = IF ch THEN 1 ELSE 0] :
        n \in RemoteIds, l \in {"listening", "failed", "none"}, ch \in BOOLEAN }

\* What _receive_message is given: the texts of RawInputs, the same
\* addressed to another node, and no data.
ReceiveInputs ==
    RawInputs \cup {[raw EXCEPT !.dest = "n2"] : raw \in RawInputs} \cup {NoRaw}

ChannelInit ==
    /\ clock = Epoch
    /\ bcOpen = FALSE
    /\ bcTimer = "none"
    /\ bcOrphans = 0
    /\ lastPing = 0
    /\ nodes = [k \in NodeKeys |-> NoNode]
    /\ udp = NoUdp
    /\ sweep = NoSweep
    /\ cur = 0
    /\ conns = [c \in ConnIds |-> NoConn]
    /\ sockIn = NoIn
    /\ rc = [pc |-> "idle", conn |-> 0, raise |-> FALSE, out |-> "none", data |-> NoData]
    /\ uiPending = {}
    /\ polling = 0
    /\ picking = <<>>
    /\ auto = NoAuto
    /\ hist = NoHist
    /\ \/ \E conn \in Closable, broadcasting \in BOOLEAN :
            codec = [NoCall EXCEPT !.op = "close", !.conn = conn, !.cc = TRUE,
                                   !.broadcasting = broadcasting]
       \/ \E conn \in Closable, cc \in BOOLEAN, broadcasting \in BOOLEAN :
            codec = [NoCall EXCEPT !.op = "stop", !.cc = cc,
                                   !.conn = IF cc THEN conn ELSE NoConn,
                                   !.broadcasting = broadcasting]
       \/ \E raw \in ReceiveInputs, expected \in {_TYPE_COMMAND_RESULT, _TYPE_PONG} :
            codec = [NoCall EXCEPT !.op = "_receive_message", !.raw = raw,
                                   !.node_id = LocalId, !.expected = expected]

\* close(broadcast_connection) on the command connection conn.
CallClose ==
    /\ codec.op = "close" /\ ~codec.done
    /\ codec' = [codec EXCEPT !.done = TRUE,
                              !.effects = close_effects(codec.conn, codec.broadcasting)]
    /\ UNCHANGED <<sweep, auto, hist, clock, discovery, command, editor>>

\* stop() on a session with or without a command connection and a
\* broadcast connection.
CallStop ==
    /\ codec.op = "stop" /\ ~codec.done
    /\ codec' = [codec EXCEPT !.done = TRUE,
                              !.effects = stop_effects(codec.cc, codec.conn,
                                                       codec.broadcasting)]
    /\ UNCHANGED <<sweep, auto, hist, clock, discovery, command, editor>>

\* _receive_message(data, expected_type) on a connection of node node_id.
CallReceiveMessage ==
    /\ codec.op = "_receive_message" /\ ~codec.done
    /\ LET r == _receive_message(codec.raw, codec.node_id, codec.expected)
       IN  codec' = [codec EXCEPT !.done = TRUE, !.thrown = r.thrown,
                                  !.parsed = r.msg]
    /\ UNCHANGED <<sweep, auto, hist, clock, discovery, command, editor>>

ChannelNext ==
    \/ CallClose
    \/ CallStop
    \/ CallReceiveMessage

ChannelSpec == ChannelInit /\ [][ChannelNext]_vars

(********************** the discovery channel alone ************************)
\* The times between two looks at the clock: half the ping interval, the
\* interval, and one millisecond more.
FineSteps == {_NODE_PING_SECONDS \div 2, _NODE_PING_SECONDS, _NODE_PING_SECONDS + 1}

\* Time passes.
Elapse(d) ==
    /\ clock + d <= MaxPingClock
    /\ clock' = clock + d
    /\ UNCHANGED <<sweep, codec, auto, hist, discovery, command, editor>>

\* start() and stop() in any order, and the timer of the broadcast
\* connection ticking at any time.
PingNext ==
    \/ \E d \in FineSteps : Elapse(d)
    \/ Start
    \/ Stop
    \/ Listening
    \/ TimerTick

PingSpec == Init /\ [][PingNext]_vars

(********************** the sweep, one node at a time **********************)
\* The timer's callback up to the loop of timeout_remote_nodes:
\* _broadcast_ping, then _now and the keys the loop will visit.
TickBegin ==
    /\ EventLoopFree
    /\ bcOpen /\ bcTimer = "running"
    /\ lastPing' = IF ping_due(lastPing, clock) THEN _time_now(clock) ELSE lastPing
    /\ hist' = [hist EXCEPT
                   !.prevPing = IF ping_due(lastPing, clock) THEN lastPing ELSE @,
                   !.tick = [now |-> clock, last |-> lastPing,
                             sent |-> ping_due(lastPing, clock)]]
    /\ sweep' = [pc |-> "running", now |-> _time_now(clock),
                 todo |-> {k \in NodeKeys : nodes[k].seen # 0},
                 start |-> nodes, end |-> nodes]
    /\ UNCHANGED <<codec, auto, clock, bcOpen, bcTimer, bcOrphans, nodes, udp,
                   command, editor>>

\* One pass of the loop: the node under key k is deleted if it timed out.
SweepVisit(k) ==
    /\ sweep.pc = "running"
    /\ k \in sweep.todo
    /\ nodes' = IF nodes[k].seen # 0 /\ should_timeout(nodes[k], sweep.now)
                THEN [nodes EXCEPT ![k] = NoNode] ELSE nodes
    /\ sweep' = [sweep EXCEPT !.todo = @ \ {k}]
    /\ UNCHANGED <<codec, auto, hist, clock, bcOpen, bcTimer, bcOrphans, lastPing,
                   udp, command, editor>>

\* The loop has visited every key: timeout_remote_nodes and the callback
\* return.
SweepEnd ==
    /\ sweep.pc = "running"
    /\ sweep.todo = {}
    /\ sweep' = [sweep EXCEPT !.pc = "idle", !.end = nodes]
    /\ UNCHANGED <<codec, auto, hist, clock, discovery, command, editor>>

\* The times between two looks at the clock: the node timeout, and one
\* millisecond more.
SweepSteps == {_NODE_TIMEOUT_SECONDS, _NODE_TIMEOUT_SECONDS + 1}

\* Time passes.
Age(d) ==
    /\ clock + d <= MaxSweepClock
    /\ clock' = clock + d
    /\ UNCHANGED <<sweep, codec, auto, hist, discovery, command, editor>>

\* The pongs of two nodes.
Pongs ==
    { Raw(TRUE, JNum(1), "ue_py", "pong", "n1", Absent, Attrs("WS1")),
      Raw(TRUE, JNum(1), "ue_py", "pong", "n2", Absent, Attrs("WS2")) }

\* A started session, the pongs of two nodes arriving at any time and the
\* timer's callback run one node at a time.
SweepNext ==
    \/ \E d \in SweepSteps : Age(d)
    \/ Start
    \/ Stop
    \/ Listening
    \/ \E raw \in Pongs : UdpMessage(raw)
    \/ TickBegin
    \/ \E k \in NodeKeys : SweepVisit(k)
    \/ SweepEnd

SweepSpec == Init /\ [][SweepNext]_vars

(*********************** the datagrams and the sockets *********************)
\* More datagrams: a pong with a wrong magic, one without a source, one
\* addressed to this node.
MoreDatagrams ==
    Datagrams \cup
    { Raw(TRUE, JNum(1), "ue_px", "pong", "n1", Absent, Attrs("WS1")),
      Raw(TRUE, JNum(1), "ue_py", "pong", Absent, Absent, Attrs("WS3")),
      Raw(TRUE, JNum(1), "ue_py", "pong", "n1", LocalId, Attrs("WS2")) }

\* start(), stop() and open_command_connection() in any order, the timer,
\* any datagram at any time, and what the sockets of closed broadcast
\* connections still deliver.
DiscoveryNext ==
    \/ \E d \in ClockSteps : AdvanceClock(d)
    \/ Start
    \/ Stop
    \/ OpenCommandConnection("n1")
    \/ Listening
    \/ TimerTick
    \/ \E raw \in MoreDatagrams : UdpMessage(raw)
    \/ LateListening
    \/ \E raw \in MoreDatagrams : ClosedUdpMessage(raw)

DiscoverySpec == Init /\ [][DiscoveryNext]_vars

(******************* the auto-connecting editor integration ****************)
\* The connect2ue handler of src/unnamed/part_000: without a session it
\* makes one, starts it and sets the detect_node interval; with one it stops
\* it and drops it.  remote_node_id is left as it is.
AutoConnect2ue ==
    /\ EventLoopFree
    /\ "connect2ue" \in uiPending
    /\ uiPending' = uiPending \ {"connect2ue"}
    /\ IF ~auto.remote_exec
       THEN /\ auto.detect < MaxDetect
            /\ auto' = [auto EXCEPT !.remote_exec = TRUE, !.detect = @ + 1]
            /\ cur' = 0
            /\ bcOpen' = TRUE
            /\ bcTimer' = "binding"
            /\ lastPing' = 0
            /\ nodes' = [k \in NodeKeys |-> NoNode]
            /\ hist' = [hist EXCEPT !.started = TRUE, !.stoppedWith = {},
                                    !.prevPing = 0, !.opens = 0, !.tick = NoTick]
            /\ udp' = [udp EXCEPT !.queued = FALSE]
            /\ UNCHANGED <<conns, sockIn>>
       ELSE LET r == close_command_connection(conns, cur, bcOpen)
            IN  /\ conns' = r.conns
                /\ cur' = r.cur
                /\ sockIn' = drop_closed(r.conns, sockIn)
                /\ bcOpen' = FALSE
                /\ bcTimer' = "none"
                /\ nodes' = [k \in NodeKeys |-> NoNode]
                /\ auto' = [auto EXCEPT !.remote_exec = FALSE]
                /\ udp' = broadcast_close(
                              IF cur # 0 THEN _broadcast_message(udp, bcTimer)
                              ELSE udp, bcTimer)
                /\ hist' = [hist EXCEPT !.started = FALSE,
                                        !.stoppedWith = remote_nodes]
                /\ UNCHANGED lastPing
    /\ UNCHANGED <<sweep, codec, clock, bcOrphans, rc, polling, picking>>

\* One run of a detect_node interval: with a remote_node_id it clears
\* itself; without one it reads remote_exec.remote_nodes (a TypeError when
\* remote_exec is null) and, if there is a node, takes the first as
\* remote_node_id and opens a command connection to it.
DetectTick ==
    /\ EventLoopFree
    /\ auto.detect > 0
    /\ IF ~Falsy(auto.remote_node_id)
       THEN /\ auto' = [auto EXCEPT !.detect = @ - 1]
            /\ UNCHANGED <<nodes, cur, conns, hist, udp>>
       ELSE IF auto.remote_exec /\ remote_nodes # {}
       THEN /\ ConnCount < MaxConns
            /\ \E n \in remote_nodes :
                  /\ auto' = [auto EXCEPT !.remote_node_id = n]
                  /\ cur' = ConnCount + 1
                  /\ conns' = [conns EXCEPT ![ConnCount + 1] = open(conns, n, bcOpen)]
            /\ nodes' = remote_nodes_stored(nodes)
            /\ udp' = _broadcast_message(udp, bcTimer)
            /\ hist' = [hist EXCEPT !.opens = @ + 1]
       ELSE UNCHANGED <<auto, nodes, cur, conns, hist, udp>>
    /\ UNCHANGED <<sweep, codec, clock, bcOpen, bcTimer, bcOrphans, lastPing, sockIn, rc,
                   editor>>

\* The send2ue handler of src/unnamed/part_000: with a remote_node_id it
\* calls remote_exec.run_command(text, 'ExecuteFile'), a TypeError when
\* remote_exec is null; without one it logs that it is not connected.
AutoSend2ue ==
    /\ EventLoopFree
    /\ "send2ue" \in uiPending
    /\ uiPending' = uiPending \ {"send2ue"}
    /\ IF Falsy(auto.remote_node_id)
       THEN UNCHANGED <<conns, rc>>
       ELSE LET r == run_command(conns, IF auto.remote_exec THEN cur ELSE 0, FALSE)
            IN  /\ conns' = r.conns
                /\ rc' = r.rc
    /\ UNCHANGED <<sweep, codec, auto, hist, clock, discovery, cur, sockIn, polling, picking>>

\* activate() makes no session: remote_exec and remote_node_id are null.
AutoInit == Init

AutoNext ==
    \/ Events
    \/ \E cmd \in EditorCommands : UserInvoke(cmd)
    \/ AutoConnect2ue
    \/ AutoSend2ue
    \/ DetectTick

AutoSpec == AutoInit /\ [][AutoNext]_vars

\* The event loop runs every handler and every timer callback that is
\* ready, each of them; what the user, the clock and the remote party do is
\* not forced.
FairAutoSpec ==
    /\ AutoSpec
    /\ WF_vars(Listening) /\ WF_vars(TimerTick) /\ WF_vars(DataHandler)
    /\ WF_vars(RunCommandWait) /\ WF_vars(AutoConnect2ue) /\ WF_vars(AutoSend2ue)
    /\ WF_vars(DetectTick)

(************************* the node registry alone *************************)
\* The timestamps update_remote_node is given, and those
\* timeout_remote_nodes is given: each of the former plus the timeout, one
\* less and one more, and 0.
Timestamps == {0, Epoch, 10}
SweepTimes ==
    {0} \cup {t + _NODE_TIMEOUT_SECONDS + d : t \in Timestamps, d \in {0 - 1, 0, 1}}

\* A _RemoteExecutionBroadcastNodes as its constructor leaves it.
RegistryInit == Init

\* update_remote_node(n, data, t0)
UpdateRemoteNode(n, data, t0) ==
    /\ nodes' = update_remote_node(nodes, n, data, t0)
    /\ hist' = [hist EXCEPT !.op = "update_remote_node", !.n = n, !.t0[n] = t0]
    /\ UNCHANGED <<sweep, codec, auto, clock, bcOpen, bcTimer, bcOrphans, lastPing, udp,
                   command, editor>>

\* timeout_remote_nodes(now)
TimeoutRemoteNodes(now) ==
    /\ nodes' = timeout_remote_nodes(nodes, now)
    /\ hist' = [hist EXCEPT !.op = "timeout_remote_nodes", !.now = now,
                            !.before = {k \in NodeKeys : nodes[k].seen # 0}]
    /\ UNCHANGED <<sweep, codec, auto, clock, bcOpen, bcTimer, bcOrphans, lastPing, udp,
                   command, editor>>

\* The getter remote_nodes of the registry.
RemoteNodes ==
    /\ nodes' = remote_nodes_stored(nodes)
    /\ hist' = [hist EXCEPT !.op = "remote_nodes"]
    /\ UNCHANGED <<sweep, codec, auto, clock, bcOpen, bcTimer, bcOrphans, lastPing, udp,
                   command, editor>>

RegistryNext ==
    \/ \E n \in RemoteIds, t0 \in Timestamps : UpdateRemoteNode(n, Attrs("WS1"), t0)
    \/ \E now \in SweepTimes : TimeoutRemoteNodes(now)
    \/ RemoteNodes
    \/ \E d \in ClockSteps : AdvanceClock(d)

RegistrySpec == RegistryInit /\ [][RegistryNext]_vars

(******************************** claims ***********************************)
\* The reply r is in the accepted socket of the waiting call's connection and
\* is a command_result this node accepts.
ResultArrived(r) ==
    /\ rc.pc = "waiting"
    /\ sockIn = [conn |-> rc.conn, raw |-> r]
    /\ ~_receive_message(r, LocalId, _TYPE_COMMAND_RESULT).thrown

\* C1: a run_command call that wrote its command returns the payload of the
\* command_result the remote node sends on that socket; it does not stay
\* pending once that message has arrived.
C1_ResultIsReturned ==
    \A r \in Replies :
        ResultArrived(r) ~> (rc.pc = "idle" /\ rc.out = "returned" /\ rc.data = r.data)

\* C2: wherever open() has returned successfully and the session reports a
\* command connection, the channel holds an accepted socket.
C2_OpenImpliesAccepted ==
    (has_command_connection /\ conns[cur].open = "ok") => conns[cur].chan

\* open() ran on connection c with a broadcast connection to send over, and
\* no inbound connection was accepted on c.
OpenedUnaccepted(c) ==
    /\ conns[c].used
    /\ conns[c].open # "TypeError"
    /\ ~conns[c].accepted

\* C3: when no inbound connection is accepted during the accept-retry
\* attempts, connect fails with ConnectionTimeout and the listening socket is
\* released, so that the next connect can bind the command port.
C3_NoAcceptFailsAndReleases ==
    \A c \in ConnIds :
        OpenedUnaccepted(c) =>
            (conns[c].open = "ConnectionTimeout" /\ conns[c].listen = "none")

\* C4: a run_command invoked (here through send2ue) while another one on the
\* channel has not completed fails at once with ConnectionBusy, and writes no
\* command.
C4_SecondCallFailsBusy ==
    (rc.pc = "waiting" /\ "send2ue" \in uiPending)
        ~> (rc.out = "ConnectionBusy" /\ \A c \in ConnIds : conns[c].written <= 1)

\* C5: while a run_command call waits for its result the other handlers of
\* the session can run: timer ticks, datagram arrivals, and the accepted
\* socket's data handler.
C5_HandlersRunWhileWaiting ==
    rc.pc = "waiting" =>
        /\ (bcOpen /\ bcTimer = "running") => ENABLED TimerTick
        /\ (bcOpen /\ bcTimer = "running") => ENABLED (\E raw \in Datagrams : UdpMessage(raw))
        /\ sockIn # NoIn => ENABLED DataHandler

\* C6: every run_command call ends: without a command_result it fails with
\* CommandTimeout after a bounded wait.
C6_RunCommandEnds == (rc.pc = "waiting") ~> (rc.pc = "idle")

\* C7: a disconnect (close_command_connection, here through connect2ue) that
\* comes while run_command waits for its result resolves the waiter; the
\* waiter does not stay pending.
C7_CloseResolvesWaiter ==
    (rc.pc = "waiting" /\ "connect2ue" \in uiPending) ~> (rc.pc # "waiting")

\* The command channels that are open: created and not closed, so that they
\* hold a listening socket for the command endpoint.
OpenChannels ==
    {c \in ConnIds : conns[c].used /\ conns[c].open = "ok" /\ conns[c].listen # "none"}

\* C8: after any sequence of connect, disconnect and connect2ue a session has
\* at most one open command channel.
C8_AtMostOneChannel == Cardinality(OpenChannels) <= 1

\* C9: from_json rejects a text that is not JSON, and one whose version or
\* magic is not the protocol's, whatever its other fields: it reports failure
\* and the matching kind of error, never a parsed message.
C9_DecodeRejects ==
    (codec.op = "from_json" /\ codec.done) =>
        /\ ~codec.raw.json => (~codec.ret /\ codec.logged = "InvalidJSON")
        /\ (codec.raw.json /\ codec.raw.version # JNum(_PROTOCOL_VERSION))
               => (~codec.ret /\ codec.logged = "VersionMismatch")
        /\ (codec.raw.json /\ codec.raw.version = JNum(_PROTOCOL_VERSION)
               /\ codec.raw.magic # _PROTOCOL_MAGIC)
               => (~codec.ret /\ codec.logged = "MagicMismatch")

\* C10 as stated: passes_receive_filter is true exactly when the source is
\* not the local id and the dest is absent or the local id.
C10_FilterAbsentDest ==
    (codec.op = "passes_receive_filter" /\ codec.done) =>
        (codec.passes <=>
            (codec.m.source # codec.node_id
             /\ (codec.m.dest = Absent \/ codec.m.dest = codec.node_id)))

\* C10 amended: passes_receive_filter is true exactly when the source is not
\* the local id and the dest is absent, the empty string, or the local id.  A
\* self-sourced message and one addressed to another node are rejected, one
\* addressed to nobody or to the local node is accepted.
C10_FilterFalsyDest ==
    (codec.op = "passes_receive_filter" /\ codec.done) =>
        /\ codec.passes <=>
             (codec.m.source # codec.node_id
              /\ (codec.m.dest \in {Absent, "", codec.node_id}))
        /\ codec.m.source = codec.node_id => ~codec.passes
        /\ codec.m.dest \in (IdValues \ {Absent, "", codec.node_id}) => ~codec.passes

\* C10's case: a message with an empty dest from another node was filtered.
C10_Witness ==
    /\ codec.op = "passes_receive_filter" /\ codec.done
    /\ codec.m.dest = "" /\ codec.m.source = "n1" /\ codec.node_id = LocalId
    /\ codec.passes

\* The keys to_json writes on every message.
RequiredKeys == {"version", "magic", "type", "source"}

\* Scenario A: a ping from node "abc" is encoded as
\* {"version":1,"magic":"ue_py","type":"ping","source":"abc"}.
PingFromAbc ==
    codec.m = Message(_TYPE_PING, "abc", Absent, NoData) =>
        /\ codec.keys = RequiredKeys
        /\ codec.enc = Raw(TRUE, JNum(1), "ue_py", "ping", "abc", Absent, NoData)

\* C11 as stated: to_json writes the keys version, magic, type and source,
\* the key dest only when the message has a destination and the key payload
\* only when it has a payload; a ping from "abc" gives exactly the four keys.
C11_EncodeKeysPayload ==
    (codec.op = "to_json" /\ codec.done) =>
        /\ codec.keys = RequiredKeys
                \cup (IF codec.m.dest = Absent THEN {} ELSE {"dest"})
                \cup (IF codec.m.data = NoData THEN {} ELSE {"payload"})
        /\ PingFromAbc

\* C11 amended: to_json writes the keys version, magic, type and source, the
\* key dest only when the destination is a non-empty string and the key data
\* only when the message has a payload; what is absent is omitted, and the
\* content written is the message's.  A ping from "abc" gives exactly the
\* four keys.
C11_EncodeKeysData ==
    (codec.op = "to_json" /\ codec.done) =>
        /\ codec.keys = RequiredKeys
                \cup (IF codec.m.dest \in {Absent, ""} THEN {} ELSE {"dest"})
                \cup (IF codec.m.data = NoData THEN {} ELSE {"data"})
        /\ codec.enc.version = JNum(_PROTOCOL_VERSION)
        /\ codec.enc.magic = _PROTOCOL_MAGIC
        /\ codec.enc.type_ = codec.m.type_ /\ codec.enc.source = codec.m.source
        /\ "dest" \in codec.keys => codec.enc.dest = codec.m.dest
        /\ "dest" \notin codec.keys => codec.enc.dest = Absent
        /\ codec.enc.data = codec.m.data
        /\ PingFromAbc

\* C11's case: a message with a destination and a payload was encoded.
C11_Witness ==
    /\ codec.op = "to_json" /\ codec.done
    /\ codec.m.dest = "n1" /\ codec.m.data = Attrs("WS1")
    /\ codec.keys = RequiredKeys \cup {"dest", "data"}

\* C12 as stated: decoding the encoding of a message gives a message equal to
\* it in type, source, dest and payload.
C12_RoundTrip ==
    (codec.op = "to_json, from_json" /\ codec.done) =>
        (codec.ret /\ codec.parsed = codec.m)

\* C12 amended: decoding the encoding of a message gives a message equal to
\* it in type, source and payload, and in dest unless the dest is the empty
\* string, which comes back absent; an absent dest or payload stays absent.
C12_RoundTripEmptyDest ==
    (codec.op = "to_json, from_json" /\ codec.done) =>
        /\ codec.ret /\ codec.logged = "none"
        /\ codec.parsed.type_ = codec.m.type_
        /\ codec.parsed.source = codec.m.source
        /\ codec.parsed.data = codec.m.data
        /\ codec.parsed.dest = (IF codec.m.dest = "" THEN Absent ELSE codec.m.dest)

\* C12's case: a command_result with a dest and a payload went through
\* to_json and from_json and came back whole.
C12_Witness ==
    /\ codec.op = "to_json, from_json" /\ codec.done
    /\ codec.m = Message(_TYPE_COMMAND_RESULT, "n1", LocalId, Result(TRUE, "1"))
    /\ codec.parsed = codec.m

\* C13: after update_remote_node(n, attrs, t0) the registry lists n, and
\* timeout_remote_nodes(now) removes a node exactly when the t0 it was last
\* updated with plus the timeout is less than now, for every t0 including 0.
C13_SweepRemovesExactlyExpired ==
    /\ hist.op = "update_remote_node" => nodes[hist.n].seen # 0
    /\ hist.op = "timeout_remote_nodes" =>
          \A k \in hist.before :
              (nodes[k].seen = 0) <=> (hist.t0[k] + _NODE_TIMEOUT_SECONDS < hist.now)

\* C14: reading remote_nodes leaves the registry as it was: no key such as
\* node_id is added to the attributes a record holds.
C14_SnapshotLeavesRegistry ==
    hist.op = "remote_nodes" => \A k \in NodeKeys : nodes[k].data.node_id = Absent

\* C15: remote_nodes is empty whenever the session is not started: before the
\* first start() and after every stop(), whatever was discovered before.
C15_NoNodesUnlessStarted == ~hist.started => remote_nodes = {}

\* C15's case: stop() was called on a session that listed a node.
C15_Witness == ~hist.started /\ hist.stoppedWith # {} /\ remote_nodes = {}

\* C16: run_command with raise_on_failure set fails with the remote result's
\* text when the result has success = false; in every other case it returns
\* the remote result unchanged.
C16_RaiseOnFailure ==
    \A r \in Replies, raise \in BOOLEAN :
        (ResultArrived(r) /\ rc.raise = raise /\ conns[rc.conn].open = "ok")
            ~> (/\ rc.pc = "idle"
                /\ rc.out = (IF raise /\ ~r.data.success THEN "Error" ELSE "returned")
                /\ rc.data = r.data)

\* C17: a run_command issued without a command connection, or on one that
\* has no accepted socket, fails with an error, writes no command and leaves
\* the discovery channel, the command channel and the registry as they were.
C17_RunCommandNeedsConnection ==
    [][\A raise \in BOOLEAN :
          (RunCommand(raise) /\ (cur = 0 \/ ~conns[cur].chan)) =>
              /\ rc'.pc = "idle" /\ rc'.out = "TypeError"
              /\ UNCHANGED <<discovery, cur, conns, sockIn>>]_vars

\* C17's case: run_command failed on an opened channel without an accepted
\* socket, and nothing was written.
C17_Witness ==
    /\ rc.pc = "idle" /\ rc.out = "TypeError"
    /\ cur # 0 /\ conns[cur].open = "ok" /\ ~conns[cur].chan
    /\ conns[cur].written = 0

\* C18: a session has at most one open discovery channel: no socket or timer
\* of an earlier broadcast connection stays active once a new one exists.
C18_OneDiscoveryChannel == bcOrphans + (IF bcOpen THEN 1 ELSE 0) <= 1

\* C19: in the auto-connecting extension, every session that connect2ue
\* starts gets exactly one open_command_connection once a node is discovered,
\* also when an earlier invocation stopped the session and this one started
\* it again.
C19_AutoConnectsOnce ==
    /\ (auto.remote_exec /\ remote_nodes # {} /\ hist.opens = 0)
           ~> (hist.opens = 1 \/ ~auto.remote_exec)
    /\ [](hist.opens <= 1)

\* C20: two consecutive pings of one broadcast connection are at least the
\* ping interval apart, whenever its timer ticks.
C20_PingsAtLeastIntervalApart ==
    hist.prevPing # 0 => lastPing - hist.prevPing >= _NODE_PING_SECONDS

\* C20's case: a broadcast connection sent a second ping, as soon after the
\* first as the guard lets it.
C20_Witness ==
    /\ bcOpen /\ hist.prevPing # 0
    /\ lastPing = hist.prevPing + _NODE_PING_SECONDS + 1

\* C21: on each tick of the timer a ping is sent exactly when no ping was
\* sent yet on this broadcast connection or the time since the last one is
\* at least the ping interval: a tick exactly one interval after the last
\* ping sends one.  (Every tick also runs the sweep: nodes' in TimerTick.)
C21_PingWhenIntervalElapsed ==
    hist.tick.now # 0 =>
        (hist.tick.sent <=>
            (hist.tick.last = 0
             \/ hist.tick.now - hist.tick.last >= _NODE_PING_SECONDS))

\* The text raw decodes: it is JSON with the protocol's version and magic.
Decodes(raw) ==
    /\ raw.json
    /\ ~LooseNeNum(raw.version, _PROTOCOL_VERSION)
    /\ raw.magic = _PROTOCOL_MAGIC

\* The datagram raw decodes, passes the filter of this node and is a pong.
ValidPong(raw) ==
    /\ Decodes(raw)
    /\ raw.type_ = _TYPE_PONG
    /\ raw.source # LocalId
    /\ raw.dest \in {Absent, "", LocalId}

C24_ClosedChannelIsSilent ==
    /\ hist.late # "running"
    /\ hist.closedData = "none"
    /\ ~bcOpen => remote_nodes = {}

\* C29: every record of the registry is under the id of a node that sent a
\* pong: never this node's own id, never a key made of a message that had
\* no source.
C29_RecordsHaveSources ==
    \A k \in NodeKeys : nodes[k].seen # 0 => (k # LocalId /\ k # Absent)

\* C23: an upsert and a sweep never run inside one another: while the loop
\* of timeout_remote_nodes is between two nodes no datagram is handled, and
\* what a sweep leaves is what timeout_remote_nodes makes, in one step, of
\* the registry it began with.  Each upsert is one step (UdpMessage), so the
\* registry is that of the upserts and sweeps run one after another.
C23_UpsertAndSweepExclusive ==
    /\ sweep.pc = "running" => ~ENABLED (\E raw \in Pongs : UdpMessage(raw))
    /\ (sweep.pc = "idle" /\ sweep.now # 0) =>
           sweep.end = timeout_remote_nodes(sweep.start, sweep.now)

\* C23's case: a sweep over two nodes removed the one that had timed out and
\* kept the other.
C23_Witness ==
    /\ sweep.pc = "idle" /\ sweep.now # 0
    /\ sweep.start["n1"].seen # 0 /\ sweep.end["n1"].seen = 0
    /\ sweep.start["n2"].seen # 0 /\ sweep.end["n2"].seen # 0

\* The places of the effects with act a in the sequence s.
Places(s, a) == {i \in 1 .. Len(s) : s[i].act = a}

InvalidArrived(r) ==
    /\ rc.pc = "waiting"
    /\ sockIn = [conn |-> rc.conn, raw |-> r]
    /\ _receive_message(r, LocalId, _TYPE_COMMAND_RESULT).thrown

\* C28: when data that is not a valid command_result arrives while
\* run_command waits, the call fails with a ProtocolError delivered to its
\* caller, and the command is not written again.
C28_InvalidDataFailsCall ==
    \A r \in Replies :
        (InvalidArrived(r) /\ conns[rc.conn].open = "ok")
            ~> (rc.pc = "idle" /\ rc.out = "ProtocolError"
                /\ \A c \in ConnIds : conns[c].written <= 1)

\* C30: a command connection that open() opened has at most one accepted
\* socket that is not destroyed, and none once close() has run.
C30_OneAcceptedSocket ==
    \A c \in ConnIds :
        conns[c].open = "ok" =>
            /\ conns[c].socks <= 1
            /\ conns[c].listen = "none" => conns[c].socks = 0

=============================================================================
